---- MODULE Spec2Model ----
(***************************************************************************)
(* Model of msgraph-py: the token cache of msgraph/core.py (get_token)     *)
(* and the device operations of msgraph/devices.py (get_device,            *)
(* list_owned_devices, get_laps_password) with their paging loops.         *)
(*                                                                         *)
(* Python values are modelled as follows.  A str is a sequence of atoms    *)
(* ("" is <<>>).  A dict is a function whose DOMAIN is its key set.  A     *)
(* value that may be None, a str, a list or an int carries a type tag.     *)
(***************************************************************************)
EXTENDS Integers, Sequences, FiniteSets, TLC

\* ------------------------------------------------------------------------
\* Bounds of the model
\* ------------------------------------------------------------------------
MaxNow == 1
MaxPages == 3

\* ------------------------------------------------------------------------
\* Python values
\* ------------------------------------------------------------------------
None == [t |-> "None"]
Str(s) == [t |-> "str", v |-> s]
List(l) == [t |-> "list", v |-> l]
IntV(n) == [t |-> "int", v |-> n]

\* Python truthiness of a tagged value (None, "", [] and 0 are falsy).
Truthy(x) ==
    CASE x.t = "None" -> FALSE
      [] x.t = "str"  -> x.v /= <<>>
      [] x.t = "list" -> x.v /= <<>>
      [] x.t = "int"  -> x.v /= 0

EmptyDict == [k \in {} |-> None]
Has(d, k) == k \in DOMAIN d
DictSet(d, k, val) == [x \in (DOMAIN d) \cup {k} |-> IF x = k THEN val ELSE d[x]]
\* dict.get(k) with the default None, as a str()-formatted value
GetOrNone(d, k) == IF Has(d, k) THEN d[k] ELSE "None"

\* ------------------------------------------------------------------------
\* core.py: the token cache and get_token
\* ------------------------------------------------------------------------
CLOCK_SKEW_SECONDS == 5 * 60

Tokens == {"t1", "t2"}
ExpiresIn == {0, CLOCK_SKEW_SECONDS, CLOCK_SKEW_SECONDS + 1}
Elapsed == {0, 1}

Reason(status) ==
    CASE status = 200 -> "OK"
      [] status = 202 -> "Accepted"
      [] status = 204 -> "No Content"
      [] status = 400 -> "Bad Request"
      [] status = 404 -> "Not Found"
      [] status = 503 -> "Service Unavailable"

\* What the identity endpoint may answer: a body that is not JSON, or a JSON
\* object holding any subset of the documented members.
TokenOkBodies ==
    { [k \in K |-> IF k = "access_token" THEN a ELSE e] :
        K \in SUBSET {"access_token", "expires_in"}, a \in Tokens, e \in ExpiresIn }
TokenErrBodies == { EmptyDict, [error_description |-> "invalid_client"] }
TokenResponses ==
    { [status |-> 200, json |-> TRUE, body |-> b] : b \in TokenOkBodies }
    \cup { [status |-> s, json |-> TRUE, body |-> b] : s \in {400, 503}, b \in TokenErrBodies }
    \cup { [status |-> s, json |-> FALSE, body |-> EmptyDict] : s \in {200, 503} }
NoResponse == [status |-> 0, json |-> FALSE, body |-> EmptyDict]

NoError == [kind |-> "none"]
RequestFailed(resp, message) ==
    [kind |-> "ConnectionError", status |-> resp.status,
     reason |-> Reason(resp.status), message |-> message]
KeyError(k) == [kind |-> "KeyError", key |-> k]
JSONDecodeError == [kind |-> "JSONDecodeError"]

\* the expiry check as a slip would write it: with >, or not at all
CacheFreshStrict(c, t) == c["exp"] > t + CLOCK_SKEW_SECONDS
CacheFreshNoExpiry(c, t) == TRUE
\* if _token_cache["exp"] >= time() + CLOCK_SKEW_SECONDS
CacheFresh(c, t) == c["exp"] >= t + CLOCK_SKEW_SECONDS

\* the expiry computed from the time the call began instead of time()
ExpiryFromCallStart(t0, t1, expires_in) == t0 + expires_in
\* time() + data["expires_in"], time() being t1, read after the answer
Expiry(t0, t1, expires_in) == t1 + expires_in

\* The outcome of one get_token call.
TokenOutcome(c, t, n, outcome, ret, err, resp) ==
    [cache |-> c, now |-> t, reqs |-> n, outcome |-> outcome,
     ret |-> ret, err |-> err, resp |-> resp]

\* The part of get_token after requests.post has answered resp, d seconds
\* after the call began.
token_response(c, t, resp, d) ==
    IF resp.status /= 200 THEN
        IF ~resp.json
        THEN TokenOutcome(c, t + d, 1, "raise", "", JSONDecodeError, resp)
        ELSE TokenOutcome(c, t + d, 1, "raise", "",
                          RequestFailed(resp, GetOrNone(resp.body, "error_description")), resp)
    ELSE IF ~resp.json
        THEN TokenOutcome(c, t + d, 1, "raise", "", JSONDecodeError, resp)
    ELSE IF ~Has(resp.body, "access_token")
        THEN TokenOutcome(c, t + d, 1, "raise", "", KeyError("access_token"), resp)
    ELSE IF ~Has(resp.body, "expires_in")
        THEN TokenOutcome(DictSet(c, "jwt", resp.body["access_token"]), t + d, 1,
                          "raise", "", KeyError("expires_in"), resp)
    ELSE TokenOutcome(
            DictSet(DictSet(c, "jwt", resp.body["access_token"]),
                    "exp", Expiry(t, t + d, resp.body["expires_in"])),
            t + d, 1, "return", resp.body["access_token"], NoError, resp)

\* get_token() called at time t with cache c, when a token request, if one
\* is made, is answered by resp after d seconds.
get_token(c, t, resp, d) ==
    IF c /= EmptyDict /\ ~Has(c, "exp")
    THEN TokenOutcome(c, t, 0, "raise", "", KeyError("exp"), NoResponse)
    ELSE IF c /= EmptyDict /\ CacheFresh(c, t)
    THEN IF Has(c, "jwt")
         THEN TokenOutcome(c, t, 0, "return", c["jwt"], NoError, NoResponse)
         ELSE TokenOutcome(c, t, 0, "raise", "", KeyError("jwt"), NoResponse)
    ELSE token_response(c, t, resp, d)

\* ------------------------------------------------------------------------
\* devices.py: building the request
\* ------------------------------------------------------------------------
MAX_PAGE_SIZE == 999

\* ensure_list: a str becomes a one-element list
ensure_list(value) == IF value.t = "str" THEN <<value.v>> ELSE value.v

\* sep.join(l) for a list of strs
RECURSIVE Join(_, _)
Join(sep, l) ==
    IF l = <<>> THEN <<>>
    ELSE IF Len(l) = 1 THEN l[1]
    ELSE l[1] \o <<sep>> \o Join(sep, Tail(l))

\* urllib.parse.quote_plus, atom by atom
QuoteAtom(a) ==
    CASE a = " " -> "+"
      [] a = "/" -> "%2F"
      [] OTHER -> a
quote_plus(s) == [i \in 1..Len(s) |-> QuoteAtom(s[i])]

\* the condition with search and orderby forgotten
AdvancedQueryFilterOnly(a) == Truthy(a.filter)
\* filter or search or orderby
AdvancedQuery(a) == Truthy(a.filter) \/ Truthy(a.search) \/ Truthy(a.orderby)

\* the precondition with search forgotten
MutuallyExclusiveFilterOnly(a) == Truthy(a.device_id) /\ Truthy(a.filter)
\* if device_id and (filter or search)
MutuallyExclusive(a) == Truthy(a.device_id) /\ (Truthy(a.filter) \/ Truthy(a.search))

DeviceUrl(a) ==
    IF Truthy(a.device_id)
    THEN <<"https://graph.microsoft.com/v1.0/devices", "/">> \o quote_plus(a.device_id.v)
    ELSE <<"https://graph.microsoft.com/v1.0/devices">>
OwnedDevicesUrl(a) ==
    <<"https://graph.microsoft.com/v1.0/users/">> \o quote_plus(a.user_id.v)
        \o <<"/ownedDevices">>

ConsistencyLevel(a) == IF AdvancedQuery(a) THEN Str(<<"eventual">>) ELSE None
\* a fixed bearer token instead of the one the call of get_token() returned
BuildHeadersFixedToken(a, token) ==
    [k \in {"Authorization", "ConsistencyLevel"} |->
        IF k = "Authorization" THEN Str(<<"Bearer ", "t1">>) ELSE ConsistencyLevel(a)]
BuildHeaders(a, token) ==
    [k \in {"Authorization", "ConsistencyLevel"} |->
        IF k = "Authorization" THEN Str(<<"Bearer ", token>>) ELSE ConsistencyLevel(a)]

BuildParams(a) ==
    [k \in {"$select", "$filter", "$search", "$orderby", "$top", "$count"} |->
        CASE k = "$select" ->
                IF Truthy(a.select) THEN Str(Join(",", ensure_list(a.select))) ELSE None
          [] k = "$filter" -> a.filter
          [] k = "$search" ->
                IF Truthy(a.search) THEN Str(<<"<quote>">> \o a.search.v \o <<"<quote>">>) ELSE None
          [] k = "$orderby" ->
                IF Truthy(a.orderby) THEN Str(Join(",", ensure_list(a.orderby))) ELSE None
          [] k = "$top" ->
                IF a.top /= None THEN a.top
                ELSE IF a.all THEN IntV(MAX_PAGE_SIZE) ELSE None
          [] k = "$count" -> IF AdvancedQuery(a) THEN Str(<<"true">>) ELSE None]

\* requests leaves out every header and parameter whose value is None
Wire(d) == [k \in {x \in DOMAIN d : d[x] /= None} |-> d[k]]
Request(url, headers, params) ==
    [url |-> url, headers |-> Wire(headers), params |-> Wire(params)]

\* str.split(sep) on a str of atoms
RECURSIVE Split(_, _)
Split(s, sep) ==
    IF \A i \in 1..Len(s) : s[i] /= sep THEN <<s>>
    ELSE LET i == CHOOSE j \in 1..Len(s) : s[j] = sep /\ \A h \in 1..(j - 1) : s[h] /= sep
         IN  <<SubSeq(s, 1, i - 1)>> \o Split(SubSeq(s, i + 1, Len(s)), sep)

\* next_link.split("$skiptoken=")[1]
SkipToken(next_link) == Split(next_link, "$skiptoken=")[2]

\* params replaced by the cursor alone; the first cursor never replaced;
\* the cursor never stored
NextParamsUnchanged(params, next_link) == params
NextParamsReplacing(params, next_link) == [k \in {"$skiptoken"} |-> Str(SkipToken(next_link))]
NextParamsKeepFirst(params, next_link) ==
    IF Has(params, "$skiptoken") THEN params
    ELSE DictSet(params, "$skiptoken", Str(SkipToken(next_link)))
\* params["$skiptoken"] = next_link.split("$skiptoken=")[1]
NextParams(params, next_link) == DictSet(params, "$skiptoken", Str(SkipToken(next_link)))

\* the loop condition with top forgotten
FollowLinkIgnoringTop(a, next_link) == Truthy(next_link) /\ a.all
\* if next_link and (all and top is None)
FollowLink(a, next_link) == Truthy(next_link) /\ (a.all /\ a.top = None)

\* data = page instead of data.extend(page)
ExtendOverwrite(data, page) == page
\* data.extend(page)
Extend(data, page) == data \o page

\* ------------------------------------------------------------------------
\* The Graph service: a listing is served as a chain of n pages, page k
\* naming page k + 1 by the cursor in its @odata.nextLink
\* ------------------------------------------------------------------------
PageLen(k) == CASE k % 3 = 1 -> 2 [] k % 3 = 2 -> 0 [] OTHER -> 1
PageItems(k) == [j \in 1..PageLen(k) |-> [id |-> 10 * k + j]]
Cursor(k) == ToString(k)
NextLink(url, k) == url \o <<"?", "$skiptoken=", Cursor(k)>>

\* the page a request asks for
PageOf(req) ==
    IF Has(req.params, "$skiptoken")
    THEN CHOOSE k \in 1..(MaxPages + 1) : req.params["$skiptoken"] = Str(<<Cursor(k)>>)
    ELSE 1

PageBody(url, n, k) ==
    [key \in {"value"} \cup (IF k < n THEN {"@odata.nextLink"} ELSE {})
            \cup (IF k = 1 THEN {"@odata.count"} ELSE {}) |->
        CASE key = "value" -> List(PageItems(k))
          [] key = "@odata.nextLink" -> Str(NextLink(url, k + 1))
          [] key = "@odata.count" -> IntV(n)]
DeviceBody(a) == [key \in {"id"} |-> a.device_id]

GraphErrors ==
    { [status |-> 404, json |-> TRUE, body |-> [error |-> [message |-> "not found"]]],
      [status |-> 400, json |-> TRUE, body |-> EmptyDict],
      [status |-> 503, json |-> FALSE, body |-> EmptyDict] }
\* what the service may answer to one GET of a paged operation
GraphResponses(o, req) ==
    { [status |-> 200, json |-> TRUE,
       body |-> IF o.name = "get_device" /\ Truthy(o.args.device_id)
                THEN DeviceBody(o.args)
                ELSE PageBody(o.url, o.pages, PageOf(req))] }
    \cup GraphErrors

\* response.json().get("error", {}).get("message")
ErrorMessage(body) ==
    IF Has(body, "error") THEN GetOrNone(body["error"], "message") ELSE "None"

Nothing == [t |-> "nothing"]
ValueError == [kind |-> "ValueError"]

VARIABLES
    now,          \* time(): the clock, in seconds
    token_cache,  \* core._token_cache
    tk,           \* the direct get_token call last made: what it saw and did
    op,           \* the device operation last called: its locals, requests and outcome
    th            \* the threads that are inside get_token at the same time
vars == <<now, token_cache, tk, op, th>>

NoCall == [called |-> FALSE]
NoOp == [name |-> "none", pc |-> "idle"]
Quiescent == tk = NoCall /\ op = NoOp
Threads == {"A", "B"}
NoThreads == [t \in Threads |-> [pc |-> "none"]]

Init ==
    /\ now = 0
    /\ token_cache = EmptyDict
    /\ tk = NoCall
    /\ op = NoOp
    /\ th = NoThreads

\* time passes
Tick ==
    /\ now < MaxNow
    /\ now' = now + 1
    /\ UNCHANGED <<token_cache, tk, op, th>>

\* the caller has taken the outcome of the call it made
Forget ==
    /\ ~Quiescent
    /\ op.pc = "idle"
    /\ tk' = NoCall
    /\ op' = NoOp
    /\ UNCHANGED <<now, token_cache, th>>

\* a direct call of get_token()
GetToken ==
    /\ Quiescent
    /\ \E resp \in TokenResponses, d \in Elapsed :
        LET r == get_token(token_cache, now, resp, d) IN
        /\ r.now <= MaxNow
        /\ now' = r.now
        /\ token_cache' = r.cache
        /\ tk' = [called |-> TRUE, before |-> token_cache, t0 |-> now, t1 |-> r.now,
                  reqs |-> r.reqs, outcome |-> r.outcome, ret |-> r.ret,
                  err |-> r.err, resp |-> r.resp]
        /\ op' = NoOp
        /\ UNCHANGED th

\* ------------------------------------------------------------------------
\* devices.py: get_device and list_owned_devices
\* ------------------------------------------------------------------------
DeviceIds == {None, Str(<<"a", "/", "b">>)}
Selects == {None, List(<< <<"id">>, <<"displayName">> >>)}
Filters == {None, Str(<<>>), Str(<<"f">>)}
Searches == {None, Str(<<"s">>)}
OrderBys == {None, Str(<<"o">>)}
Tops == {None, IntV(0), IntV(50)}
GetDeviceArgs ==
    [device_id : DeviceIds, select : Selects, filter : Filters, search : Searches,
     orderby : OrderBys, top : Tops, all : BOOLEAN]
OwnedDevicesArgs ==
    [user_id : {Str(<<"u", " ", "1">>)}, select : Selects, filter : Filters,
     search : Searches, orderby : OrderBys, top : Tops, all : BOOLEAN]

\* the record of an operation that has just been called
Called(name, a, n) ==
    [name |-> name, pc |-> "idle", args |-> a, pages |-> n, cache0 |-> token_cache,
     tokCalls |-> 0, tokReqs |-> 0, token |-> "", url |-> <<>>,
     headers |-> EmptyDict, params |-> EmptyDict, data |-> <<>>, gets |-> <<>>,
     outcome |-> "raise", ret |-> Nothing, err |-> NoError]

\* From the call of get_token() in the headers to the top of the while loop.
BeginPaging(name, a, n, url, r) ==
    LET c == [Called(name, a, n) EXCEPT !.tokCalls = 1, !.tokReqs = r.reqs] IN
    /\ now' = r.now
    /\ token_cache' = r.cache
    /\ tk' = NoCall
    /\ UNCHANGED th
    /\ op' = IF r.outcome = "raise" THEN [c EXCEPT !.err = r.err]
             ELSE [c EXCEPT !.pc = "paging", !.outcome = "running", !.token = r.ret,
                            !.url = url, !.headers = BuildHeaders(a, r.ret),
                            !.params = BuildParams(a)]

\* get_device(...) up to its first GET
CallGetDevice ==
    /\ Quiescent
    /\ \E a \in GetDeviceArgs, n \in 1..MaxPages :
        /\ Truthy(a.device_id) => n = 1
        /\ IF MutuallyExclusive(a)
           THEN /\ op' = [Called("get_device", a, n) EXCEPT !.err = ValueError]
                /\ UNCHANGED <<now, token_cache, tk, th>>
           ELSE \E resp \in TokenResponses, d \in Elapsed :
                    LET r == get_token(token_cache, now, resp, d) IN
                    /\ r.now <= MaxNow
                    /\ BeginPaging("get_device", a, n, DeviceUrl(a), r)

\* list_owned_devices(...) up to its first GET
CallListOwnedDevices ==
    /\ Quiescent
    /\ \E a \in OwnedDevicesArgs, n \in 1..MaxPages,
          resp \in TokenResponses, d \in Elapsed :
        LET r == get_token(token_cache, now, resp, d) IN
        /\ r.now <= MaxNow
        /\ BeginPaging("list_owned_devices", a, n, OwnedDevicesUrl(a), r)

\* response.json().get("value", [response.json()]) in get_device,
\* response.json().get("value") in list_owned_devices
PageValue(name, body) ==
    IF Has(body, "value") THEN body["value"]
    ELSE IF name = "get_device" THEN List(<<body>>) ELSE None

\* return data[0] if device_id else data
Returned(o, data) ==
    IF o.name = "get_device" /\ Truthy(o.args.device_id) THEN data[1] ELSE List(data)

\* One pass of the while loop: the GET, the status check, the extension of
\* data and the decision to go on.
PageStep(o, req, resp) ==
    LET sent == [o EXCEPT !.gets = Append(@, [req |-> req, page |-> PageOf(req), resp |-> resp])]
        failed(e) == [sent EXCEPT !.pc = "idle", !.outcome = "raise", !.err = e]
    IN
    IF resp.status /= 200 THEN
        IF ~resp.json THEN failed(JSONDecodeError)
        ELSE failed(RequestFailed(resp, ErrorMessage(resp.body)))
    ELSE
        LET value == PageValue(o.name, resp.body)
            next_link == IF Has(resp.body, "@odata.nextLink")
                         THEN resp.body["@odata.nextLink"] ELSE None
        IN
        IF value = None THEN failed([kind |-> "TypeError"])
        ELSE LET data == Extend(o.data, value.v) IN
             IF FollowLink(o.args, next_link)
             THEN IF Len(Split(next_link.v, "$skiptoken=")) < 2
                  THEN failed([kind |-> "IndexError"])
                  ELSE [sent EXCEPT !.data = data,
                            !.params = NextParams(@, next_link.v)]
             ELSE [sent EXCEPT !.data = data, !.pc = "idle", !.outcome = "return",
                               !.ret = Returned(o, data)]

GetPage ==
    /\ op.pc = "paging"
    /\ LET req == Request(op.url, op.headers, op.params) IN
       \E resp \in GraphResponses(op, req) : op' = PageStep(op, req, resp)
    /\ UNCHANGED <<now, token_cache, tk, th>>

\* ------------------------------------------------------------------------
\* devices.py: get_laps_password
\* ------------------------------------------------------------------------
\* the Base64 alphabet, values 0..63
B64Alphabet ==
    <<"A", "B", "C", "D", "E", "F", "G", "H", "I", "J", "K", "L", "M", "N", "O", "P",
      "Q", "R", "S", "T", "U", "V", "W", "X", "Y", "Z", "a", "b", "c", "d", "e", "f",
      "g", "h", "i", "j", "k", "l", "m", "n", "o", "p", "q", "r", "s", "t", "u", "v",
      "w", "x", "y", "z", "0", "1", "2", "3", "4", "5", "6", "7", "8", "9", "+", "/">>
B64Value(ch) == (CHOOSE i \in 1..64 : B64Alphabet[i] = ch) - 1
\* the printable ASCII characters, codes 32..126
AsciiChars ==
    <<" ", "!", "<quote>", "#", "$", "%", "&", "'", "(", ")", "*", "+", ",", "-", ".", "/",
      "0", "1", "2", "3", "4", "5", "6", "7", "8", "9", ":", ";", "<", "=", ">", "?",
      "@", "A", "B", "C", "D", "E", "F", "G", "H", "I", "J", "K", "L", "M", "N", "O",
      "P", "Q", "R", "S", "T", "U", "V", "W", "X", "Y", "Z", "[", "<backslash>", "]", "^", "_",
      "<backtick>", "a", "b", "c", "d", "e", "f", "g", "h", "i", "j", "k", "l", "m", "n", "o",
      "p", "q", "r", "s", "t", "u", "v", "w", "x", "y", "z", "{", "|", "}", "~">>
Chr(b) == AsciiChars[b - 31]
Ord(ch) == (CHOOSE i \in 1..95 : AsciiChars[i] = ch) + 31

\* the bytes that a sequence of 6-bit values packs
RECURSIVE SextetsToBytes(_)
SextetsToBytes(x) ==
    IF Len(x) < 2 THEN <<>>
    ELSE IF Len(x) = 2 THEN <<x[1] * 4 + x[2] \div 16>>
    ELSE IF Len(x) = 3 THEN <<x[1] * 4 + x[2] \div 16, (x[2] % 16) * 16 + x[3] \div 4>>
    ELSE <<x[1] * 4 + x[2] \div 16, (x[2] % 16) * 16 + x[3] \div 4, (x[3] % 4) * 64 + x[4]>>
            \o SextetsToBytes(SubSeq(x, 5, Len(x)))

\* base64.b64decode(s).decode("utf-8"), for a padded input over the alphabet
b64decode_utf8(s) ==
    LET digits == SelectSeq(s, LAMBDA ch : ch /= "=")
        bytes == SextetsToBytes([i \in 1..Len(digits) |-> B64Value(digits[i])])
    IN  IF Len(s) % 4 /= 0 THEN [ok |-> FALSE, err |-> [kind |-> "binascii.Error"]]
        ELSE IF \E i \in 1..Len(bytes) : bytes[i] < 32 \/ bytes[i] > 126
        THEN [ok |-> FALSE, err |-> [kind |-> "UnicodeDecodeError"]]
        ELSE [ok |-> TRUE, text |-> [i \in 1..Len(bytes) |-> Chr(bytes[i])]]

LapsUrl(a) ==
    <<"https://graph.microsoft.com/v1.0/directory/deviceLocalCredentials/">>
        \o quote_plus(a.device_id.v)

\* "application/json" not in response.headers.get("Content-Type", "")
IsJsonContent(headers) ==
    /\ Has(headers, "Content-Type")
    /\ \E i \in 1..Len(headers["Content-Type"]) : headers["Content-Type"][i] = "application/json"

\* data[-1] instead of data[0]
LastCredential(data) == data[Len(data)]
\* data[0]
FirstCredential(data) == data[1]

\* data[0].get("passwordBase64", "")
EncodedPassword(data) ==
    IF Has(FirstCredential(data), "passwordBase64")
    THEN FirstCredential(data)["passwordBase64"] ELSE <<>>

\* what the service may answer to the GET of get_laps_password
EncodedPasswords ==
    { <<"c", "G", "F", "z", "c", "w", "=", "=">>, <<"Y", "W", "I", "=">>,
      <<"S", "2", "8", "h">>, <<>> }
Credentials ==
    { [accountName |-> "Administrator"] }
    \cup { [accountName |-> "Administrator", passwordBase64 |-> e] : e \in EncodedPasswords }
LapsResponses ==
    { [status |-> 200, json |-> TRUE, headers |-> [k \in {"Content-Type"} |-> ct],
       body |-> [credentials |-> l]] :
        ct \in { <<"application/json">>,
                 <<"application/json", ";odata.metadata=minimal", ";charset=utf-8">> },
        l \in { <<c>> : c \in Credentials } \cup { <<c, e>> : c \in Credentials, e \in Credentials } }
    \cup { [status |-> 200, json |-> FALSE, headers |-> h, body |-> EmptyDict] :
            h \in { EmptyDict, [k \in {"Content-Type"} |-> <<"text/plain">>] } }
    \cup { [status |-> r.status, json |-> r.json, body |-> r.body,
            headers |-> IF r.json THEN [k \in {"Content-Type"} |-> <<"application/json">>]
                        ELSE [k \in {"Content-Type"} |-> <<"text/html">>]] : r \in GraphErrors }

\* get_laps_password after its GET has been answered
LapsOutcome(o, resp) ==
    LET failed(e) == [o EXCEPT !.outcome = "raise", !.err = e]
        returned(x) == [o EXCEPT !.outcome = "return", !.ret = x]
    IN
    IF resp.status /= 200 THEN
        IF ~resp.json THEN failed(JSONDecodeError)
        ELSE failed(RequestFailed(resp, ErrorMessage(resp.body)))
    ELSE IF ~IsJsonContent(resp.headers) THEN returned(None)
    ELSE IF ~resp.json THEN failed(JSONDecodeError)
    ELSE IF ~Has(resp.body, "credentials") THEN failed(KeyError("credentials"))
    ELSE LET data == resp.body["credentials"] IN
         IF data = <<>> THEN failed([kind |-> "IndexError"])
         ELSE LET decoded == b64decode_utf8(EncodedPassword(data)) IN
              IF decoded.ok THEN returned(Str(decoded.text)) ELSE failed(decoded.err)

\* get_laps_password(device_id)
CallGetLapsPassword ==
    /\ Quiescent
    /\ \E a \in [device_id : {Str(<<"a", "/", "b">>)}],
          tresp \in TokenResponses, d \in Elapsed :
        LET r == get_token(token_cache, now, tresp, d)
            c == [Called("get_laps_password", a, 1) EXCEPT !.tokCalls = 1, !.tokReqs = r.reqs]
        IN
        /\ r.now <= MaxNow
        /\ now' = r.now
        /\ token_cache' = r.cache
        /\ tk' = NoCall
        /\ UNCHANGED th
        /\ IF r.outcome = "raise" THEN op' = [c EXCEPT !.err = r.err]
           ELSE \E resp \in LapsResponses :
                    LET headers == [k \in {"Authorization"} |-> Str(<<"Bearer ", r.ret>>)]
                        params == [k \in {"$select"} |-> Str(<<"credentials">>)]
                        req == Request(LapsUrl(a), headers, params)
                    IN  op' = LapsOutcome(
                                [c EXCEPT !.token = r.ret, !.url = LapsUrl(a),
                                          !.headers = headers, !.params = params,
                                          !.gets = <<[req |-> req, page |-> 1, resp |-> resp]>>],
                                resp)

\* ------------------------------------------------------------------------
\* devices.py: delete_device
\* ------------------------------------------------------------------------
\* BASE_URL.format(quote_plus(device_id))
DeleteUrl(a) == <<"https://graph.microsoft.com/v1.0/devices/">> \o quote_plus(a.device_id.v)

\* what the service may answer to the DELETE: the documented empty 204,
\* other 2xx answers with and without a JSON body, and the errors
DeleteResponses ==
    { [status |-> 204, json |-> FALSE, body |-> EmptyDict],
      [status |-> 200, json |-> TRUE, body |-> EmptyDict],
      [status |-> 202, json |-> FALSE, body |-> EmptyDict] }
    \cup GraphErrors

\* any 2xx status taken for success
DeleteSucceededAny2xx(status) == status \in 200..299
\* the negation of: response.status_code != 204
DeleteSucceeded(status) == status = 204

\* delete_device after its DELETE has been answered
DeleteOutcome(o, resp) ==
    LET failed(e) == [o EXCEPT !.outcome = "raise", !.err = e] IN
    IF ~DeleteSucceeded(resp.status) THEN
        IF ~resp.json THEN failed(JSONDecodeError)
        ELSE failed(RequestFailed(resp, ErrorMessage(resp.body)))
    ELSE [o EXCEPT !.outcome = "return", !.ret = TRUE]

\* delete_device(device_id)
CallDeleteDevice ==
    /\ Quiescent
    /\ \E a \in [device_id : {Str(<<"a", "/", "b">>)}],
          tresp \in TokenResponses, d \in Elapsed :
        LET r == get_token(token_cache, now, tresp, d)
            c == [Called("delete_device", a, 1) EXCEPT !.tokCalls = 1, !.tokReqs = r.reqs]
        IN
        /\ r.now <= MaxNow
        /\ now' = r.now
        /\ token_cache' = r.cache
        /\ tk' = NoCall
        /\ UNCHANGED th
        /\ IF r.outcome = "raise" THEN op' = [c EXCEPT !.err = r.err]
           ELSE \E resp \in DeleteResponses :
                    LET headers == [k \in {"Authorization"} |-> Str(<<"Bearer ", r.ret>>)]
                        req == Request(DeleteUrl(a), headers, EmptyDict)
                    IN  op' = DeleteOutcome(
                                [c EXCEPT !.token = r.ret, !.url = DeleteUrl(a),
                                          !.headers = headers,
                                          !.gets = <<[req |-> req, page |-> 1, resp |-> resp]>>],
                                resp)

Next ==
    \/ Tick \/ Forget \/ GetToken
    \/ CallGetDevice \/ CallListOwnedDevices \/ GetPage
    \/ CallGetLapsPassword \/ CallDeleteDevice

Spec == Init /\ [][Next]_vars

\* ------------------------------------------------------------------------
\* core.py: two threads inside get_token
\* ------------------------------------------------------------------------
\* _token_cache is a module global that no lock guards. Each step below is
\* one read or one write of it, in the order of the statements of get_token;
\* the steps of the two threads interleave freely.

\* the token endpoint answering as documented: a token with its lifetime,
\* or an error with a JSON body
WellFormedTokenResponses ==
    { r \in TokenResponses :
        /\ r.json
        /\ r.status = 200 => DOMAIN r.body = {"access_token", "expires_in"} }

\* the cache at the start: empty, or holding a token that has expired
ExpiredCache == [k \in {"jwt", "exp"} |-> IF k = "jwt" THEN "t0" ELSE 0]

\* a thread that has called get_token and not yet run its first statement
Entered == [pc |-> "called", data |-> EmptyDict, outcome |-> "running",
            ret |-> "", err |-> NoError]

ConcInit ==
    /\ now = 0
    /\ token_cache \in {EmptyDict, ExpiredCache}
    /\ tk = NoCall
    /\ op = NoOp
    /\ th = [t \in Threads |-> Entered]

Raised(r, e) == [r EXCEPT !.pc = "done", !.outcome = "raise", !.err = e]
ReturnedToken(r, x) == [r EXCEPT !.pc = "done", !.outcome = "return", !.ret = x]

\* if _token_cache:
TestCache ==
    \E t \in Threads :
        /\ th[t].pc = "called"
        /\ th' = [th EXCEPT ![t].pc = IF token_cache /= EmptyDict THEN "check" ELSE "post"]
        /\ UNCHANGED <<now, token_cache, tk, op>>

\* if _token_cache["exp"] >= time() + CLOCK_SKEW_SECONDS:
TestExpiry ==
    \E t \in Threads :
        /\ th[t].pc = "check"
        /\ th' = [th EXCEPT ![t] =
                    IF ~Has(token_cache, "exp") THEN Raised(@, KeyError("exp"))
                    ELSE IF CacheFresh(token_cache, now) THEN [@ EXCEPT !.pc = "cached"]
                    ELSE [@ EXCEPT !.pc = "post"]]
        /\ UNCHANGED <<now, token_cache, tk, op>>

\* return _token_cache["jwt"]
ReturnCached ==
    \E t \in Threads :
        /\ th[t].pc = "cached"
        /\ th' = [th EXCEPT ![t] =
                    IF ~Has(token_cache, "jwt") THEN Raised(@, KeyError("jwt"))
                    ELSE ReturnedToken(@, token_cache["jwt"])]
        /\ UNCHANGED <<now, token_cache, tk, op>>

\* response = requests.post(...) up to data = response.json()
PostToken ==
    \E t \in Threads, resp \in WellFormedTokenResponses :
        /\ th[t].pc = "post"
        /\ th' = [th EXCEPT ![t] =
                    IF resp.status /= 200
                    THEN Raised(@, RequestFailed(resp, GetOrNone(resp.body, "error_description")))
                    ELSE [@ EXCEPT !.pc = "store_jwt", !.data = resp.body]]
        /\ UNCHANGED <<now, token_cache, tk, op>>

\* _token_cache["jwt"] = data["access_token"]
StoreJwt ==
    \E t \in Threads :
        /\ th[t].pc = "store_jwt"
        /\ token_cache' = DictSet(token_cache, "jwt", th[t].data["access_token"])
        /\ th' = [th EXCEPT ![t].pc = "store_exp"]
        /\ UNCHANGED <<now, tk, op>>

\* _token_cache["exp"] = time() + data["expires_in"], and the return
StoreExp ==
    \E t \in Threads :
        /\ th[t].pc = "store_exp"
        /\ token_cache' = DictSet(token_cache, "exp", Expiry(now, now, th[t].data["expires_in"]))
        /\ th' = [th EXCEPT ![t] = ReturnedToken(@, th[t].data["access_token"])]
        /\ UNCHANGED <<now, tk, op>>

ConcNext ==
    \/ Tick
    \/ TestCache \/ TestExpiry \/ ReturnCached
    \/ PostToken \/ StoreJwt \/ StoreExp

ConcSpec == ConcInit /\ [][ConcNext]_vars

\* ------------------------------------------------------------------------
\* Properties of get_token
\* ------------------------------------------------------------------------
\* a cache entry written whole: both the token and its expiry
Complete(c) == Has(c, "jwt") /\ Has(c, "exp")
ServedFromCache == tk.reqs = 0 /\ tk.outcome = "return" /\ tk.ret = tk.before["jwt"]

\* C1: a get_token call that finds a cached token whose expiry lies beyond
\* the skew window returns that cached string, issues no token request and
\* leaves the cache alone; a call that finds the cached token expired
\* issues exactly one token request.
C1_CachedWhileValid ==
    (tk.called /\ Complete(tk.before)) =>
        /\ (tk.before["exp"] > tk.t0 + CLOCK_SKEW_SECONDS =>
                ServedFromCache /\ token_cache = tk.before)
        /\ (tk.before["exp"] < tk.t0 + CLOCK_SKEW_SECONDS => tk.reqs = 1)
C1_Witness_Cached ==
    /\ tk.called /\ Complete(tk.before)
    /\ tk.before["exp"] > tk.t0 + CLOCK_SKEW_SECONDS
    /\ tk.reqs = 0 /\ tk.ret \in Tokens

\* C2 as claimed: get_token returns the cached token without a network
\* call if and only if a cached token exists whose expiry is strictly more
\* than 300 seconds ahead, so that at expiry = now + 300 it does not.
C2_Original_StrictBoundary ==
    tk.called =>
        ((tk.reqs = 0 /\ tk.outcome = "return") <=>
            (Complete(tk.before) /\ tk.before["exp"] > tk.t0 + CLOCK_SKEW_SECONDS))
\* C2 as amended: the cache is used if and only if a cached token exists
\* whose expiry is at least 300 seconds ahead (the boundary expiry = now +
\* 300 uses the cache); a cache holding a token without an expiry makes the
\* call raise KeyError without a token request; in every other case exactly
\* one token request is issued.
C2_CacheUsedIffAtLeastSkew ==
    tk.called =>
        LET fresh == Complete(tk.before) /\ tk.before["exp"] >= tk.t0 + CLOCK_SKEW_SECONDS
            torn == tk.before /= EmptyDict /\ ~Has(tk.before, "exp")
        IN  /\ (ServedFromCache /\ tk.reqs = 0) <=> fresh
            /\ fresh => token_cache = tk.before
            /\ torn => (tk.reqs = 0 /\ tk.outcome = "raise" /\ tk.err = KeyError("exp"))
            /\ (~fresh /\ ~torn) => tk.reqs = 1
C2_Witness_Boundary ==
    /\ tk.called /\ Complete(tk.before)
    /\ tk.before["exp"] = tk.t0 + CLOCK_SKEW_SECONDS
    /\ tk.reqs = 0 /\ tk.outcome = "return"

\* C3 as claimed: when the token endpoint answers non-200, get_token raises
\* an error carrying the status, the reason phrase and the provider's error
\* description, issues no second request and leaves the cache as it was.
C3_Original_Non200Error ==
    (tk.called /\ tk.reqs >= 1 /\ tk.resp.status /= 200) =>
        /\ tk.outcome = "raise"
        /\ tk.err.kind = "ConnectionError"
        /\ tk.err.status = tk.resp.status
        /\ tk.err.reason = Reason(tk.resp.status)
        /\ tk.err.message = GetOrNone(tk.resp.body, "error_description")
        /\ tk.reqs = 1
        /\ token_cache = tk.before

\* C9 as claimed: every failure of a token request, by a non-200 answer or
\* by a malformed body, raises the same kind of error.
C9_Original_SameErrorKind ==
    (tk.called /\ tk.reqs >= 1 /\ tk.outcome = "raise") =>
        tk.err.kind = "ConnectionError"
\* ------------------------------------------------------------------------
\* Properties of the paged operations
\* ------------------------------------------------------------------------
PagedOp == op.name \in {"get_device", "list_owned_devices"}
\* a call that lists a collection (get_device without an id, list_owned_devices)
Listing == PagedOp /\ ~(op.name = "get_device" /\ Truthy(op.args.device_id))
Finished == op.pc = "idle"
FetchAll == op.args.all /\ op.args.top = None
LastGet == op.gets[Len(op.gets)]

\* the value arrays of pages 1..n of the service, one after the other
RECURSIVE ConcatPages(_)
ConcatPages(n) == IF n = 0 THEN <<>> ELSE ConcatPages(n - 1) \o PageItems(n)

\* C4: a listing called with all=True and no top, served a chain of N pages
\* that all answer 200, issues exactly N GETs, for pages 1..N in order, and
\* returns the concatenation of the N value arrays.
C4_FetchAllConcatenates ==
    (Listing /\ Finished /\ FetchAll /\ op.gets /= <<>>
        /\ \A i \in 1..Len(op.gets) : op.gets[i].resp.status = 200) =>
        /\ op.outcome = "return"
        /\ Len(op.gets) = op.pages
        /\ \A i \in 1..Len(op.gets) : op.gets[i].page = i
        /\ op.ret = List(ConcatPages(op.pages))
C4_Witness_ThreePages ==
    /\ op.name = "list_owned_devices" /\ Finished /\ FetchAll
    /\ op.outcome = "return" /\ op.pages = 3 /\ Len(op.gets) = 3
    /\ op.ret = List(<<[id |-> 11], [id |-> 12], [id |-> 31]>>)

\* C5: when top is given or all is false, a paged operation issues exactly
\* one GET and its result is that single page, continuation link or not;
\* a further GET is only ever issued after a page that carried a
\* continuation link, with all true and top not given.
C5_SinglePageUnlessFetchAll ==
    (PagedOp /\ op.tokCalls = 1 /\ op.token /= "") =>
        /\ ~FetchAll =>
            /\ Len(op.gets) <= 1
            /\ (Finished <=> Len(op.gets) = 1)
            /\ (Finished /\ LastGet.resp.status = 200) =>
                /\ op.outcome = "return"
                /\ op.ret = IF Listing THEN LastGet.resp.body["value"] ELSE LastGet.resp.body
        /\ \A i \in 1..Len(op.gets) :
            (i < Len(op.gets) \/ ~Finished) =>
                /\ FetchAll
                /\ Has(op.gets[i].resp.body, "@odata.nextLink")
C5_Witness_TopWithAll ==
    /\ op.name = "get_device" /\ Finished /\ op.outcome = "return"
    /\ op.args.all /\ op.args.top = IntV(50)
    /\ Len(op.gets) = 1
    /\ Has(op.gets[1].resp.body, "@odata.nextLink")

\* C6 as claimed: a non-200 answer on any page ends the operation with an
\* error that carries the status code and the provider's message; no GET
\* follows it and nothing is returned.
C6_Original_PageErrorAborts ==
    (PagedOp /\ op.gets /= <<>>) =>
        /\ \A i \in 1..(Len(op.gets) - 1) : op.gets[i].resp.status = 200
        /\ LastGet.resp.status /= 200 =>
            /\ Finished /\ op.outcome = "raise" /\ op.ret = Nothing
            /\ op.err.kind = "ConnectionError"
            /\ op.err.status = LastGet.resp.status
            /\ op.err.message = ErrorMessage(LastGet.resp.body)

\* C7: get_device called with a device_id together with a filter or a
\* search raises ValueError without calling get_token, without a token
\* request or a GET, and with the token cache as it was.
C7_ExclusiveArgsFailFast ==
    (op.name = "get_device" /\ Truthy(op.args.device_id)
        /\ (Truthy(op.args.filter) \/ Truthy(op.args.search))) =>
        /\ Finished /\ op.outcome = "raise" /\ op.err = ValueError
        /\ op.tokCalls = 0 /\ op.tokReqs = 0
        /\ op.gets = <<>>
        /\ token_cache = op.cache0
C7_Witness_IdWithSearch ==
    /\ op.name = "get_device" /\ Truthy(op.args.device_id)
    /\ ~Truthy(op.args.filter) /\ Truthy(op.args.search)
    /\ op.err = ValueError /\ op.gets = <<>>
    /\ token_cache /= EmptyDict

\* C8: on every GET of a paged operation, first page or follow-up, the
\* parameter $count=true and the header ConsistencyLevel: eventual are both
\* sent when one of filter, search, orderby is non-empty, and neither is
\* sent otherwise.
C8_CountWithConsistencyLevel ==
    PagedOp =>
        \A i \in 1..Len(op.gets) :
            LET req == op.gets[i].req
                advanced == \/ Truthy(op.args.filter)
                            \/ Truthy(op.args.search)
                            \/ Truthy(op.args.orderby)
            IN  /\ Has(req.params, "$count") <=> advanced
                /\ Has(req.headers, "ConsistencyLevel") <=> advanced
                /\ advanced =>
                    /\ req.params["$count"] = Str(<<"true">>)
                    /\ req.headers["ConsistencyLevel"] = Str(<<"eventual">>)
C8_Witness_FollowUpPage ==
    /\ PagedOp /\ Len(op.gets) >= 2
    /\ ~Truthy(op.args.filter) /\ ~Truthy(op.args.search) /\ Truthy(op.args.orderby)
    /\ Has(op.gets[2].req.params, "$count")
    /\ Has(op.gets[2].req.params, "$skiptoken")

\* ------------------------------------------------------------------------
\* Properties of get_laps_password
\* ------------------------------------------------------------------------
\* Base64 of a printable ASCII text, with padding
RECURSIVE B64EncodeBytes(_)
B64EncodeBytes(b) ==
    IF b = <<>> THEN <<>>
    ELSE IF Len(b) = 1
    THEN <<B64Alphabet[b[1] \div 4 + 1], B64Alphabet[(b[1] % 4) * 16 + 1], "=", "=">>
    ELSE IF Len(b) = 2
    THEN <<B64Alphabet[b[1] \div 4 + 1], B64Alphabet[(b[1] % 4) * 16 + b[2] \div 16 + 1],
           B64Alphabet[(b[2] % 16) * 4 + 1], "=">>
    ELSE <<B64Alphabet[b[1] \div 4 + 1], B64Alphabet[(b[1] % 4) * 16 + b[2] \div 16 + 1],
           B64Alphabet[(b[2] % 16) * 4 + b[3] \div 64 + 1], B64Alphabet[(b[3] % 64) + 1]>>
            \o B64EncodeBytes(SubSeq(b, 4, Len(b)))
B64Encode(text) == B64EncodeBytes([i \in 1..Len(text) |-> Ord(text[i])])

\* C10: get_laps_password, answered 200, returns None when the Content-Type
\* is not JSON and otherwise the text whose Base64 encoding is the
\* passwordBase64 member of the first credential (the empty text when that
\* credential has no such member), "cGFzcw==" giving "pass"; answered
\* non-200 it raises and returns nothing.
C10_LapsPassword ==
    (op.name = "get_laps_password" /\ op.gets /= <<>>) =>
        LET resp == op.gets[1].resp
            jsonType == /\ "Content-Type" \in DOMAIN resp.headers
                        /\ resp.headers["Content-Type"][1] = "application/json"
            first == resp.body["credentials"][1]
        IN  /\ Len(op.gets) = 1
            /\ (resp.status = 200 /\ ~jsonType) => (op.outcome = "return" /\ op.ret = None)
            /\ (resp.status = 200 /\ jsonType) =>
                /\ op.outcome = "return" /\ op.ret.t = "str"
                /\ B64Encode(op.ret.v) =
                        IF "passwordBase64" \in DOMAIN first THEN first["passwordBase64"] ELSE <<>>
                /\ ("passwordBase64" \in DOMAIN first
                        /\ first["passwordBase64"] = <<"c", "G", "F", "z", "c", "w", "=", "=">>)
                    => op.ret = Str(<<"p", "a", "s", "s">>)
            /\ resp.status /= 200 => (op.outcome = "raise" /\ op.ret = Nothing)
C10_Witness_FirstOfTwo ==
    /\ op.name = "get_laps_password" /\ op.outcome = "return"
    /\ op.ret = Str(<<"p", "a", "s", "s">>)
    /\ Len(op.gets[1].resp.body["credentials"]) = 2
    /\ op.gets[1].resp.body["credentials"][2] =
            [accountName |-> "Administrator", passwordBase64 |-> <<"Y", "W", "I", "=">>]
\* ------------------------------------------------------------------------
\* Further properties of get_token
\* ------------------------------------------------------------------------
\* C11: after a get_token call whose token request succeeded, the cache
\* holds exactly the access token of that response and the expiry time of
\* caching + expires_in of that same response, whatever it held before, and
\* the call returned the token it cached.
C11_CacheHoldsLastResponse ==
    (tk.called /\ tk.reqs = 1 /\ tk.outcome = "return") =>
        /\ DOMAIN token_cache = {"jwt", "exp"}
        /\ token_cache["jwt"] = tk.resp.body["access_token"]
        /\ token_cache["exp"] = tk.t1 + tk.resp.body["expires_in"]
        /\ tk.ret = token_cache["jwt"]
C11_Witness_Renewal ==
    /\ tk.called /\ tk.reqs = 1 /\ tk.outcome = "return"
    /\ Complete(tk.before)
    /\ tk.before["jwt"] /= token_cache["jwt"]
    /\ tk.before["exp"] /= token_cache["exp"]
    /\ tk.t1 > tk.t0
\* ------------------------------------------------------------------------
\* Further properties of the paged operations
\* ------------------------------------------------------------------------
\* the parameters of page 1 that were sent on the first GET
FirstParams == op.gets[1].req.params

\* C12 as claimed: every GET after the first carries the $skiptoken in
\* place of the parameters of page 1, none of which is sent again.
C12_Original_SkiptokenReplaces ==
    PagedOp =>
        \A i \in 2..Len(op.gets) :
            /\ Has(op.gets[i].req.params, "$skiptoken")
            /\ \A k \in DOMAIN FirstParams : ~Has(op.gets[i].req.params, k)
\* C12 as amended: every GET after the first carries the $skiptoken in
\* addition to the parameters of page 1, each of which is sent again with
\* the value it had on page 1; the first GET carries no $skiptoken.
C12_SkiptokenAdded ==
    PagedOp =>
        /\ op.gets /= <<>> => ~Has(FirstParams, "$skiptoken")
        /\ \A i \in 2..Len(op.gets) :
            LET p == op.gets[i].req.params IN
            /\ DOMAIN p = DOMAIN FirstParams \cup {"$skiptoken"}
            /\ \A k \in DOMAIN FirstParams : p[k] = FirstParams[k]
C12_Witness_ThirdGet ==
    /\ PagedOp /\ Len(op.gets) = 3
    /\ {"$select", "$filter", "$search", "$orderby", "$top", "$count", "$skiptoken"}
            \subseteq DOMAIN op.gets[3].req.params

\* the cursor that a response names in its continuation link
CursorOfLink(resp) ==
    LET link == resp.body["@odata.nextLink"].v IN <<link[Len(link)]>>

\* C13: the $skiptoken of every GET after the first is the cursor of the
\* continuation link of the response just before it, and every GET of an
\* operation goes to the URL of its first GET.
C13_CursorOfPrecedingPage ==
    PagedOp =>
        \A i \in 2..Len(op.gets) :
            /\ op.gets[i].req.params["$skiptoken"] = Str(CursorOfLink(op.gets[i - 1].resp))
            /\ op.gets[i].req.url = op.gets[1].req.url
C13_Witness_ThirdGet ==
    /\ PagedOp /\ Len(op.gets) = 3
    /\ op.gets[2].req.params["$skiptoken"] = Str(<<"2">>)
    /\ op.gets[3].req.params["$skiptoken"] = Str(<<"3">>)
\* One call of a paged operation in a fresh process. The loop body is
\* straight-line code and every request sent is answered, so a pass of the
\* loop that can run does run.
PagingNext == CallGetDevice \/ CallListOwnedDevices \/ GetPage
PagingSpec == Init /\ [][PagingNext]_vars /\ WF_vars(GetPage)

\* no more GETs than the listing has pages, and no page asked for twice
PagesOnce ==
    PagedOp =>
        /\ Len(op.gets) <= op.pages
        /\ \A i, j \in 1..Len(op.gets) : i /= j => op.gets[i].page /= op.gets[j].page

\* C14: the paging loop is bounded and retry-free: a call that has entered
\* the loop eventually returns or raises, having sent at most one GET for
\* each page of the listing.
C14_BoundedRetryFree ==
    /\ [](PagesOnce)
    /\ (op.pc = "paging") ~> (PagedOp /\ op.pc = "idle" /\ op.outcome \in {"return", "raise"})
C14_Witness_ThreePagesDone ==
    /\ PagedOp /\ Finished /\ op.outcome = "return"
    /\ Len(op.gets) = 3
    /\ \A i \in 1..3 : op.gets[i].page = i
\* ------------------------------------------------------------------------
\* Properties of delete_device
\* ------------------------------------------------------------------------
\* a delete_device call that got its token and so sent its request
Deleted == op.name = "delete_device" /\ op.tokCalls = 1 /\ op.gets /= <<>>

\* C15: delete_device sends exactly one DELETE, returns True exactly when
\* the answer has status 204, and raises for every other status, 200 and
\* the other 2xx codes included.
C15_DeleteTrueIff204 ==
    /\ op.name = "delete_device" => Len(op.gets) <= 1
    /\ Deleted =>
        /\ Len(op.gets) = 1
        /\ op.gets[1].req.url = DeleteUrl(op.args)
        /\ op.outcome \in {"return", "raise"}
        /\ (op.outcome = "return") <=> (op.gets[1].resp.status = 204)
        /\ op.outcome = "return" => op.ret = TRUE
        /\ op.outcome = "raise" => op.ret = Nothing /\ op.err /= NoError
C15_Witness_Raises200 ==
    /\ Deleted
    /\ op.gets[1].resp.status = 200
    /\ op.outcome = "raise" /\ op.err.kind = "ConnectionError"
\* ------------------------------------------------------------------------
\* The token of a device operation
\* ------------------------------------------------------------------------
\* the Authorization header that went out with the i-th request of the operation
SentAuthorization(i) ==
    IF Has(op.gets[i].req.headers, "Authorization")
    THEN op.gets[i].req.headers["Authorization"] ELSE None

\* C16: a device operation calls get_token once, before its first Graph
\* request (never, when get_device rejects its arguments), and every Graph
\* request it sends, the follow-up pages of a fetch-all loop included,
\* carries the token of that one call: paging neither acquires a token nor
\* touches the cache, however stale the token has become.
C16_OneTokenPerOperation ==
    op.name /= "none" =>
        /\ op.tokCalls \in {0, 1} /\ op.tokReqs <= op.tokCalls
        /\ op.tokCalls = 0 <=> (op.name = "get_device" /\ op.err = ValueError)
        /\ op.gets /= <<>> =>
            /\ op.tokCalls = 1
            /\ \A i \in 1..Len(op.gets) : SentAuthorization(i) = Str(<<"Bearer ", op.token>>)
            /\ Has(token_cache, "jwt") /\ token_cache["jwt"] = op.token
            /\ op.tokReqs = 0 => token_cache = op.cache0
\* three pages fetched with a token that was within the skew of its expiry
\* from the moment it was acquired
C16_Witness_StaleTokenReused ==
    /\ PagedOp /\ Finished /\ op.outcome = "return"
    /\ Len(op.gets) = 3
    /\ op.tokReqs = 1
    /\ Complete(token_cache) /\ token_cache["exp"] < CLOCK_SKEW_SECONDS
    /\ op.token = "t2"
    /\ \A i \in 1..3 : SentAuthorization(i) = Str(<<"Bearer ", "t2">>)
\* ------------------------------------------------------------------------
\* The shape of the cache
\* ------------------------------------------------------------------------
\* C17 as claimed: whatever the token endpoint has answered, the cache is
\* empty or holds both a token and an expiry, so that the next get_token
\* call can evaluate the cached expiry.
C17_Original_CacheEmptyOrComplete ==
    token_cache = EmptyDict \/ Complete(token_cache)
\* ------------------------------------------------------------------------
\* Two concurrent callers of get_token
\* ------------------------------------------------------------------------
\* the tokens that successful token requests of the two callers have issued
Issued ==
    { th[u].data["access_token"] : u \in { v \in Threads : Has(th[v].data, "access_token") } }

\* C18 as claimed: of two concurrent callers that start from an empty or
\* expired cache and get well-formed answers, each one that has finished
\* has returned a token issued by a successful token request or has failed
\* with the error of a non-200 answer; none has failed on a cache entry that
\* has a token and no expiry yet.
C18_Original_CallersUnaffected ==
    \A t \in Threads :
        th[t].pc = "done" =>
            \/ th[t].outcome = "return" /\ th[t].ret \in Issued
            \/ th[t].outcome = "raise" /\ th[t].err.kind = "ConnectionError"
====
